---- MODULE Spec2Model ----
(***************************************************************************)
(* Subclass synthesis of the autocxx engine:                               *)
(*   engine/src/conversion/apivec.rs                (ApiVec)               *)
(*   engine/src/conversion/analysis/fun/subclass.rs (the synthesizers)     *)
(* Identifiers are sequences of characters, an Option is a sequence of     *)
(* length at most one (None == <<>>, Some(x) == <<x>>), a Vec or a         *)
(* Punctuated list is a sequence, a HashMap is a function on its keys.     *)
(***************************************************************************)
EXTENDS Integers, Sequences, FiniteSets, TLC

VARIABLES apis, more, idxIn, idxOut, wrapIn, wrapOut, callIn, callOut,
          emitted, ctorIn, ctorOut

vars == <<apis, more, idxIn, idxOut, wrapIn, wrapOut, callIn, callOut,
          emitted, ctorIn, ctorOut>>

\* ------------------------------------------------------------------ bounds
MaxIdentLen == 2
MaxApis == 3
MaxMore == 2
MaxParams == 3

\* ------------------------------------------------------------------- names
None == <<>>
Some(x) == <<x>>

Alphabet == {"a", "_"}
Idents == {s \in UNION {[1..n -> Alphabet] : n \in 1..MaxIdentLen} :
              \E i \in 1..Len(s) : s[i] # "_"}
RootNamespace == <<>>
Namespaces == {RootNamespace, <<"ns">>}

QualifiedName(ns, id) == [ns |-> ns, id |-> id]
QualifiedNames == {QualifiedName(ns, id) : ns \in Namespaces, id \in Idents}
get_final_item(q) == q.id
make_ident(s) == s
get_final_ident(q) == make_ident(get_final_item(q))
get_namespace(q) == q.ns
to_cpp_name(q) == <<q.ns, q.id>>

ApiName(name, cpp_name) == [name |-> name, cpp_name |-> cpp_name]
new_in_root_namespace(id) == ApiName(QualifiedName(RootNamespace, id), None)
new_with_cpp_name(ns, id, cpp_name) == ApiName(QualifiedName(ns, id), cpp_name)
cpp_name(n) == IF n.cpp_name = None THEN get_final_item(n.name) ELSE n.cpp_name[1]

\* A SubclassName wraps the ApiName of the subclass; these derive its names.
SubclassName(q) == ApiName(q, None)
cpp(sub) == QualifiedName(get_namespace(sub.name), get_final_item(sub.name) \o <<"C", "p", "p">>)
holder(sub) == get_final_item(sub.name) \o <<"H", "o", "l", "d", "e", "r">>
synthesized_constructor(sub) ==
    QualifiedName(get_namespace(sub.name), get_final_item(sub.name) \o <<"_", "n", "e", "w">>)

\* ------------------------------------------------------------- API entries
SubclassApi(name, superclass) == [kind |-> "Subclass", name |-> name, superclass |-> superclass]
OtherApi(kind, name) == [kind |-> kind, name |-> name]
ApiNameOf(api) == api.name.name

NameA == QualifiedName(RootNamespace, <<"a">>)
NameB == QualifiedName(RootNamespace, <<"a", "a">>)
SuperS == QualifiedName(<<"ns">>, <<"a">>)
SuperT == QualifiedName(<<"ns">>, <<"a", "_">>)

VecApis == {SubclassApi(SubclassName(n), SuperS) : n \in {NameA, NameB}}
             \cup {OtherApi("Struct", ApiName(n, None)) : n \in {NameA, NameB}}
IndexApis == {SubclassApi(SubclassName(n), s) : n \in {NameA, NameB}, s \in {SuperS, SuperT}}
             \cup {OtherApi("Struct", ApiName(n, None)) : n \in {NameA, SuperS}}

SeqsUpTo(S, n) == UNION {[1..k -> S] : k \in 0..n}

\* ------------------------------------------------------------------ ApiVec
new == <<>>

push(self, api) == Append(self, api)

RECURSIVE extend(_, _)
extend(self, it) ==
    IF it = <<>> THEN self ELSE extend(push(self, Head(it)), Tail(it))

RECURSIVE from_iter_loop(_, _)
from_iter_loop(this, iter) ==
    IF iter = <<>> THEN this ELSE from_iter_loop(push(this, Head(iter)), Tail(iter))

from_iter(iter) == from_iter_loop(new, iter)

retain(self, f) == SelectSeq(self, LAMBDA api : api \in f)

is_empty(self) == self = <<>>

IdleOthers ==
    /\ idxIn = <<>> /\ idxOut = None
    /\ wrapIn = None /\ wrapOut = None
    /\ callIn = None /\ callOut = None
    /\ emitted = {}
    /\ ctorIn = None /\ ctorOut = None

Init ==
    /\ apis = new
    /\ more = new
    /\ IdleOthers

vecOthers == <<idxIn, idxOut, wrapIn, wrapOut, callIn, callOut, emitted, ctorIn, ctorOut>>

New ==
    /\ apis' = new
    /\ UNCHANGED <<more, vecOthers>>

Push ==
    \E api \in VecApis :
        /\ Len(apis) < MaxApis
        /\ apis' = push(apis, api)
        /\ UNCHANGED <<more, vecOthers>>

PushMore ==
    \E api \in VecApis :
        /\ Len(more) < MaxMore
        /\ more' = push(more, api)
        /\ UNCHANGED <<apis, vecOthers>>

Extend ==
    \E it \in SeqsUpTo(VecApis, MaxMore) :
        /\ Len(apis) + Len(it) <= MaxApis
        /\ apis' = extend(apis, it)
        /\ UNCHANGED <<more, vecOthers>>

AppendMore ==
    /\ Len(apis) + Len(more) <= MaxApis
    /\ apis' = extend(apis, more)
    /\ more' = <<>>
    /\ UNCHANGED vecOthers

Retain ==
    \E f \in SUBSET VecApis :
        /\ apis' = retain(apis, f)
        /\ UNCHANGED <<more, vecOthers>>

FromIter ==
    \E iter \in SeqsUpTo(VecApis, MaxMore) :
        /\ apis' = from_iter(iter)
        /\ UNCHANGED <<more, vecOthers>>

Next == New \/ Push \/ PushMore \/ Extend \/ AppendMore \/ Retain \/ FromIter

Spec == Init /\ [][Next]_vars

NamesUnique(v) == \A i, j \in 1..Len(v) : ApiNameOf(v[i]) = ApiNameOf(v[j]) => i = j

\* C5: after any sequence of new, push, extend, append, retain and from_iter
\* operations, no two entries held by an ApiVec have the same name.
C5_ApiVecNamesUnique == NamesUnique(apis) /\ NamesUnique(more)

\* ------------------------------------------------ subclasses_by_superclass
EmptyMap == [k \in {} |-> <<>>]

\* HashMap::entry(key).or_default()
or_default(map, key) ==
    [k \in DOMAIN map \cup {key} |-> IF k \in DOMAIN map THEN map[k] ELSE <<>>]

entry_push_front(map, key, name) ==
    LET m == or_default(map, key) IN [m EXCEPT ![key] = <<name>> \o m[key]]

\* subclasses_per_superclass.entry(superclass.clone()).or_default().push(name.clone())
entry_push(map, key, name) ==
    LET m == or_default(map, key) IN [m EXCEPT ![key] = Append(m[key], name)]

RECURSIVE subclasses_loop(_, _)
subclasses_loop(map, rest) ==
    IF rest = <<>> THEN map
    ELSE LET api == Head(rest) IN
         IF api.kind = "Subclass"
         THEN subclasses_loop(entry_push(map, api.superclass, api.name), Tail(rest))
         ELSE subclasses_loop(map, Tail(rest))

subclasses_by_superclass(slice) == subclasses_loop(EmptyMap, slice)

IdleVec == apis = new /\ more = new

InitIndex ==
    /\ idxIn \in SeqsUpTo(IndexApis, MaxApis)
    /\ idxOut = None
    /\ IdleVec
    /\ wrapIn = None /\ wrapOut = None
    /\ callIn = None /\ callOut = None
    /\ emitted = {}
    /\ ctorIn = None /\ ctorOut = None

BuildIndex ==
    /\ idxOut = None
    /\ idxOut' = Some(subclasses_by_superclass(idxIn))
    /\ UNCHANGED <<apis, more, idxIn, wrapIn, wrapOut, callIn, callOut, emitted, ctorIn, ctorOut>>

NextIndex == BuildIndex

SpecIndex == InitIndex /\ [][NextIndex]_vars

DeclaredSubclassesOf(slice, s) ==
    LET decls == SelectSeq(slice, LAMBDA api : api.kind = "Subclass" /\ api.superclass = s)
    IN [i \in 1..Len(decls) |-> decls[i].name]

NamedSuperclasses(slice) ==
    {slice[i].superclass : i \in {j \in 1..Len(slice) : slice[j].kind = "Subclass"}}

\* C9: the index maps exactly the superclasses named by a declared-subclass
\* entry, each to the subclass descriptors of the entries naming it, once per
\* entry and in collection order; other entries contribute nothing.
C9_IndexExact ==
    idxOut # None =>
        /\ DOMAIN idxOut[1] = NamedSuperclasses(idxIn)
        /\ \A s \in DOMAIN idxOut[1] : idxOut[1][s] = DeclaredSubclassesOf(idxIn, s)

C9_Witness ==
    /\ idxOut # None
    /\ Len(idxIn) = 3
    /\ idxIn[1].kind = "Subclass" /\ idxIn[2].kind # "Subclass" /\ idxIn[3].kind = "Subclass"
    /\ idxIn[1].superclass = idxIn[3].superclass
    /\ idxIn[1].name # idxIn[3].name
    /\ idxOut[1][SuperS] = <<idxIn[1].name, idxIn[3].name>>
    /\ SuperT \notin DOMAIN idxOut[1]

\* ------------------------------------------------------------ syn fragments
TypePath(q) == [t |-> "Path", path |-> q]
TypePtr(mutable, elem) == [t |-> "Ptr", mutable |-> mutable, elem |-> elem]
to_type_path(q) == q
Receiver == [arg |-> "Receiver"]
Typed(pat, ty) == [arg |-> "Typed", pat |-> pat, ty |-> ty]

TypeX == QualifiedName(RootNamespace, <<"a", "_">>)
ArgX == Typed("x", TypePath(TypeX))
ArgY == Typed("y", TypePtr(FALSE, TypePath(TypeX)))
ThisPtr(q) == Typed("this", TypePtr(TRUE, TypePath(q)))

\* --------------------------------------------------------- FuncToConvert
FuncToConvert(ident, doc_attr, inputs, output, vis, virtualness, cpp_vis, special_member, unused_template_param, original_name, references, synthesized_this_type, self_ty, add_to_trait, is_deleted, synthetic_cpp, cpp_only) ==
    [ident |-> ident, doc_attr |-> doc_attr, inputs |-> inputs, output |-> output,
     vis |-> vis, virtualness |-> virtualness, cpp_vis |-> cpp_vis,
     special_member |-> special_member,
     unused_template_param |-> unused_template_param,
     original_name |-> original_name, references |-> references,
     synthesized_this_type |-> synthesized_this_type, self_ty |-> self_ty,
     add_to_trait |-> add_to_trait, is_deleted |-> is_deleted,
     synthetic_cpp |-> synthetic_cpp, cpp_only |-> cpp_only]

Virtualnesses == {"None", "Virtual", "PureVirtual"}
CppVisibilities == {"Public", "Protected", "Private"}
DocAttrs == {None, Some("doc")}
Outputs == {"Default", "Type"}
Visibilities == {"Inherited", "Public"}
SpecialMembers == {None, Some("DefaultConstructor")}
OriginalNames == {None, Some(<<"a", "_">>)}
ReferencesSet == {"NoReferences", "RefReturn"}
TraitDetails == {None, Some("TraitSynthesis")}
SyntheticCpps == {None, Some(<<"FunctionCall", "Function">>)}

\* ---------------------------------------------- create_subclass_fn_wrapper
fn_wrapper_keeping_cpp_vis(sub, super_fn_name, fun) ==
    LET self_ty == Some(cpp(sub)) IN
    [synthesized_this_type |-> self_ty,
     self_ty |-> self_ty,
     ident |-> get_final_ident(super_fn_name),
     doc_attr |-> fun.doc_attr,
     inputs |-> fun.inputs,
     output |-> fun.output,
     vis |-> fun.vis,
     virtualness |-> "None",
     cpp_vis |-> fun.cpp_vis,
     special_member |-> None,
     unused_template_param |-> fun.unused_template_param,
     original_name |-> None,
     references |-> fun.references,
     add_to_trait |-> fun.add_to_trait,
     is_deleted |-> fun.is_deleted,
     synthetic_cpp |-> None,
     cpp_only |-> FALSE]

create_subclass_fn_wrapper(sub, super_fn_name, fun) ==
    LET self_ty == Some(cpp(sub)) IN
    [synthesized_this_type |-> self_ty,
     self_ty |-> self_ty,
     ident |-> get_final_ident(super_fn_name),
     doc_attr |-> fun.doc_attr,
     inputs |-> fun.inputs,
     output |-> fun.output,
     vis |-> fun.vis,
     virtualness |-> "None",
     cpp_vis |-> "Public",
     special_member |-> None,
     unused_template_param |-> fun.unused_template_param,
     original_name |-> None,
     references |-> fun.references,
     add_to_trait |-> fun.add_to_trait,
     is_deleted |-> fun.is_deleted,
     synthetic_cpp |-> None,
     cpp_only |-> FALSE]

InitFnWrapper ==
    /\ \E id \in {<<"a">>, <<"a", "a">>}, doc \in DocAttrs,
          ins \in {<<ThisPtr(SuperS)>>, <<ThisPtr(SuperS), ArgX>>}, out \in Outputs,
          vis \in Visibilities, virt \in Virtualnesses,
          cvis \in CppVisibilities, sm \in SpecialMembers, utp \in BOOLEAN,
          on \in OriginalNames, refs \in ReferencesSet, att \in TraitDetails,
          del \in BOOLEAN, syn \in SyntheticCpps, co \in BOOLEAN,
          n \in {QualifiedName(<<"ns">>, <<"a", "_">>), NameA} :
          wrapIn = Some([sub |-> SubclassName(NameB), super_fn_name |-> n,
                         fun |-> FuncToConvert(id, doc, ins, out, vis, virt, cvis, sm, utp,
                                               on, refs, Some(SuperS), Some(SuperS), att,
                                               del, syn, co)])
    /\ wrapOut = None
    /\ IdleVec
    /\ idxIn = <<>> /\ idxOut = None
    /\ callIn = None /\ callOut = None
    /\ emitted = {}
    /\ ctorIn = None /\ ctorOut = None

CreateSubclassFnWrapper ==
    /\ wrapOut = None
    /\ wrapOut' = Some(create_subclass_fn_wrapper(wrapIn[1].sub, wrapIn[1].super_fn_name,
                                                   wrapIn[1].fun))
    /\ UNCHANGED <<apis, more, idxIn, idxOut, wrapIn, callIn, callOut, emitted, ctorIn, ctorOut>>

NextFnWrapper == CreateSubclassFnWrapper

SpecFnWrapper == InitFnWrapper /\ [][NextFnWrapper]_vars

FourChanges(in, out) ==
    /\ out.self_ty = Some(cpp(in.sub))
    /\ out.synthesized_this_type = Some(cpp(in.sub))
    /\ out.ident = in.super_fn_name.id
    /\ out.virtualness = "None"
    /\ out.cpp_only = FALSE

CopiedFields ==
    {"doc_attr", "inputs", "output", "vis", "unused_template_param", "references",
     "add_to_trait", "is_deleted"}

ResetFields == {"cpp_vis", "special_member", "original_name", "synthetic_cpp"}

\* C4 as stated: apart from the receiver/this type, the identifier, the
\* cleared virtualness and cpp_only = false, every other field of the result
\* (foreign-side visibility, special-member tag, original name and
\* synthetic-body tag included) has the value it has in the original.
C4_AllOtherFieldsCopied ==
    wrapOut # None =>
        /\ FourChanges(wrapIn[1], wrapOut[1])
        /\ \A f \in CopiedFields \cup ResetFields : wrapOut[1][f] = wrapIn[1].fun[f]

\* C4 amended: the result has the subclass's foreign-side type as receiver
\* and this type, the method's final segment as identifier, no virtualness,
\* cpp_only false, public foreign-side visibility, no special-member tag, no
\* original name and no synthetic body; documentation, inputs, output,
\* visibility, unused-template flag, references, trait association and
\* deletedness are those of the original.
C4_WrapperFields ==
    wrapOut # None =>
        /\ FourChanges(wrapIn[1], wrapOut[1])
        /\ wrapOut[1].cpp_vis = "Public"
        /\ wrapOut[1].special_member = None
        /\ wrapOut[1].original_name = None
        /\ wrapOut[1].synthetic_cpp = None
        /\ \A f \in CopiedFields : wrapOut[1][f] = wrapIn[1].fun[f]
        /\ DOMAIN wrapOut[1] = DOMAIN wrapIn[1].fun

C4_Witness ==
    /\ wrapOut # None
    /\ wrapIn[1].fun.cpp_vis = "Protected"
    /\ wrapIn[1].fun.special_member # None
    /\ wrapIn[1].fun.original_name # None
    /\ wrapIn[1].fun.synthetic_cpp # None
    /\ wrapIn[1].fun.virtualness = "PureVirtual"
    /\ wrapIn[1].fun.cpp_only
    /\ wrapIn[1].fun.doc_attr # None
    /\ wrapOut[1].doc_attr = wrapIn[1].fun.doc_attr
    /\ wrapOut[1].cpp_vis = "Public"

\* ------------------------------------------------ create_subclass_function
\* Iterator::skip(n)
skip(s, n) == IF n >= Len(s) THEN <<>> ELSE SubSeq(s, n + 1, Len(s))

TypeReference(elem) == [t |-> "Reference", elem |-> elem]
HolderRef(sub) == Typed("me", TypeReference([t |-> "Path", path |-> holder(sub)]))

rust_call_name_cpp(sub, name) ==
    make_ident(get_final_item(cpp(sub)) \o <<"_">> \o get_final_item(name.name))

rust_call_name(sub, name) ==
    make_ident(get_final_item(sub.name) \o <<"_">> \o get_final_item(name.name))

params_keep_receiver(sub, analysis) == <<HolderRef(sub)>> \o analysis.params

params(sub, analysis) == <<HolderRef(sub)>> \o skip(analysis.params, 1)

kind_always_method(receiver_mutability) == "Method"

kind(receiver_mutability) ==
    IF receiver_mutability = "Mutable" THEN "Method" ELSE "ConstMethod"

argument_conversion(analysis) ==
    LET rest == skip(analysis.param_details, 1)
    IN [i \in 1..Len(rest) |-> rest[i].conversion]

requires_unsafe(analysis) ==
    \E i \in 1..Len(analysis.param_details) : analysis.param_details[i].requires_unsafe

is_pure_virtual(analysis) ==
    analysis.kind.fn = "Method" /\ analysis.kind.method_kind = "PureVirtual"

create_subclass_function(sub, analysis, name, receiver_mutability, superclass, dependency) ==
    [kind |-> "RustSubclassFn",
     name |-> new_in_root_namespace(rust_call_name(sub, name)),
     subclass |-> sub,
     details |->
        [params |-> params(sub, analysis),
         ret |-> analysis.ret_type,
         method_name |-> make_ident(analysis.rust_name),
         cpp_impl |->
            [payload |-> <<"FunctionCall", RootNamespace, rust_call_name(sub, name)>>,
             wrapper_function_name |-> get_final_ident(name.name),
             original_cpp_name |-> cpp_name(name),
             return_conversion |-> analysis.ret_conversion,
             argument_conversion |-> argument_conversion(analysis),
             kind |-> kind(receiver_mutability),
             pass_obs_field |-> TRUE,
             qualification |-> Some(cpp(sub))],
         superclass |-> superclass,
         receiver_mutability |-> receiver_mutability,
         dependency |-> dependency,
         requires_unsafe |-> requires_unsafe(analysis),
         is_pure_virtual |-> is_pure_virtual(analysis)]]

ReceiverMutabilities == {"Const", "Mutable"}
FnKinds == {[fn |-> "Function", method_kind |-> "None"],
            [fn |-> "Method", method_kind |-> "Virtual"],
            [fn |-> "Method", method_kind |-> "PureVirtual"]}
Conversions == {"Unconverted", "FromUniquePtrToValue"}
ArgumentAnalyses == [conversion : Conversions, requires_unsafe : BOOLEAN]
Returns == {[ret_type |-> "Default", ret_conversion |-> None],
            [ret_type |-> "Type", ret_conversion |-> Some("FromValueToUniquePtr")]}

FnAnalysis(ps, pds, k, r) ==
    [params |-> ps, param_details |-> pds, ret_type |-> r.ret_type,
     ret_conversion |-> r.ret_conversion, rust_name |-> <<"a", "a", "_">>, kind |-> k]

CallNames ==
    {ApiName(NameA, None), ApiName(QualifiedName(<<"ns">>, <<"a", "_">>), Some(<<"a">>))}

\* An analysis holds one detail per parameter.
InitFunction ==
    /\ \E n \in 0..MaxParams :
         \E ps \in [1..n -> {ArgX, ArgY}], pds \in [1..n -> ArgumentAnalyses],
            k \in FnKinds, r \in Returns, name \in CallNames,
            rm \in ReceiverMutabilities, dependency \in {None, Some(SuperT)} :
            callIn = Some([sub |-> SubclassName(NameB), analysis |-> FnAnalysis(ps, pds, k, r),
                           name |-> name, receiver_mutability |-> rm,
                           superclass |-> SuperS, dependency |-> dependency])
    /\ callOut = None
    /\ IdleVec
    /\ idxIn = <<>> /\ idxOut = None
    /\ wrapIn = None /\ wrapOut = None
    /\ emitted = {}
    /\ ctorIn = None /\ ctorOut = None

CreateSubclassFunction ==
    /\ callOut = None
    /\ callOut' = Some(create_subclass_function(callIn[1].sub, callIn[1].analysis,
                                                 callIn[1].name, callIn[1].receiver_mutability,
                                                 callIn[1].superclass, callIn[1].dependency))
    /\ UNCHANGED <<apis, more, idxIn, idxOut, wrapIn, wrapOut, callIn, emitted, ctorIn, ctorOut>>

NextFunction == CreateSubclassFunction

SpecFunction == InitFunction /\ [][NextFunction]_vars

OtherParamUnsafe(analysis) ==
    \E i \in 2..Len(analysis.param_details) : analysis.param_details[i].requires_unsafe

\* C1: the entry's requires_unsafe flag is true exactly when some parameter
\* after the first (the original receiver) is marked as requiring unsafe
\* handling; it is false when only the receiver is marked.
C1_UnsafeIffNonReceiverUnsafe ==
    callOut # None =>
        (callOut[1].details.requires_unsafe <=> OtherParamUnsafe(callIn[1].analysis))

\* C6: the foreign-side kind is Method exactly when the receiver mutability
\* passed in is Mutable and ConstMethod otherwise, and the entry records the
\* receiver mutability that was passed in.
C6_KindMatchesMutability ==
    callOut # None =>
        /\ callIn[1].receiver_mutability = "Mutable"
              => callOut[1].details.cpp_impl.kind = "Method"
        /\ callIn[1].receiver_mutability # "Mutable"
              => callOut[1].details.cpp_impl.kind = "ConstMethod"
        /\ callOut[1].details.receiver_mutability = callIn[1].receiver_mutability

C6_Witness ==
    /\ callOut # None
    /\ callIn[1].receiver_mutability = "Const"
    /\ callOut[1].details.cpp_impl.kind = "ConstMethod"

\* C10: for parameters [r, q1, ..., qn] the emitted parameter list is the
\* holder reference followed by q1..qn in order, of the same length as the
\* original, and the argument conversions are those of q1..qn in order, one
\* fewer than the emitted parameters.
C10_ParamsRewritten ==
    (callOut # None /\ Len(callIn[1].analysis.params) >= 1) =>
        LET in == callIn[1].analysis
            out == callOut[1].details
        IN /\ Len(out.params) = Len(in.params)
           /\ out.params[1] = HolderRef(callIn[1].sub)
           /\ \A i \in 2..Len(in.params) : out.params[i] = in.params[i]
           /\ Len(out.cpp_impl.argument_conversion) = Len(out.params) - 1
           /\ \A i \in 2..Len(in.params) :
                  out.cpp_impl.argument_conversion[i - 1] = in.param_details[i].conversion

C10_Witness ==
    /\ callOut # None
    /\ Len(callIn[1].analysis.params) = 3
    /\ callIn[1].analysis.params[2] # callIn[1].analysis.params[3]
    /\ callIn[1].analysis.params[1] = callIn[1].analysis.params[3]
    /\ callIn[1].analysis.param_details[2].conversion
          # callIn[1].analysis.param_details[3].conversion
    /\ Len(callOut[1].details.params) = 3
    /\ Len(callOut[1].details.cpp_impl.argument_conversion) = 2

\* The call names of one run: every (subclass, method) pair handed to
\* create_subclass_function so far, with the name of the entry it produced
\* and the function its C++ body calls.
NamingAnalysis ==
    [params |-> <<ArgX>>, param_details |-> <<[conversion |-> "Unconverted",
                                                requires_unsafe |-> FALSE]>>,
     ret_type |-> "Default", ret_conversion |-> None, rust_name |-> <<"a">>,
     kind |-> [fn |-> "Method", method_kind |-> "Virtual"]]

InitNaming ==
    /\ emitted = {}
    /\ IdleVec
    /\ idxIn = <<>> /\ idxOut = None
    /\ wrapIn = None /\ wrapOut = None
    /\ callIn = None /\ callOut = None
    /\ ctorIn = None /\ ctorOut = None

EmitSubclassFunction ==
    \E s \in QualifiedNames, m \in QualifiedNames :
        /\ Cardinality(emitted) < 2
        /\ LET api == create_subclass_function(SubclassName(s), NamingAnalysis,
                                               ApiName(m, None), "Const", SuperS, None)
           IN emitted' = emitted \cup
                 {[sub |-> SubclassName(s), name |-> ApiName(m, None),
                   api_name |-> api.name, payload |-> api.details.cpp_impl.payload]}
        /\ UNCHANGED <<apis, more, idxIn, idxOut, wrapIn, wrapOut, callIn, callOut,
                       ctorIn, ctorOut>>

NextNaming == EmitSubclassFunction

SpecNaming == InitNaming /\ [][NextNaming]_vars

CallNameFormat(e) ==
    /\ e.api_name = [name |-> [ns |-> <<>>, id |-> e.sub.name.id \o <<"_">> \o e.name.name.id],
                     cpp_name |-> None]
    /\ e.payload = <<"FunctionCall", <<>>, e.api_name.name.id>>

HasUnderscore(id) == \E i \in 1..Len(id) : id[i] = "_"

\* C3 as stated: the call name is the subclass's final segment, an
\* underscore and the method's final segment, and two distinct
\* (subclass, method) pairs of a run never get the same call name.
C3_CallNameUnique ==
    /\ \A e \in emitted : CallNameFormat(e)
    /\ \A e1, e2 \in emitted :
          (e1.sub # e2.sub \/ e1.name # e2.name) => e1.api_name # e2.api_name

\* C3 amended: the call name is the subclass's final segment, an underscore
\* and the method's final segment, placed in the root namespace. Two pairs
\* get different call names when they have the same subclass final segment
\* and different method final segments, or when no final segment involved
\* holds an underscore and the pairs differ in a final segment; pairs that
\* differ only in namespace always get the same call name.
C3_CallNameFormat ==
    /\ \A e \in emitted : CallNameFormat(e)
    /\ \A e1, e2 \in emitted :
          /\ (e1.sub.name.id = e2.sub.name.id /\ e1.name.name.id # e2.name.name.id)
                => e1.api_name # e2.api_name
          /\ (/\ ~HasUnderscore(e1.sub.name.id) /\ ~HasUnderscore(e2.sub.name.id)
              /\ ~HasUnderscore(e1.name.name.id) /\ ~HasUnderscore(e2.name.name.id)
              /\ (e1.sub.name.id # e2.sub.name.id \/ e1.name.name.id # e2.name.name.id))
                => e1.api_name # e2.api_name
          /\ (e1.sub.name.id = e2.sub.name.id /\ e1.name.name.id = e2.name.name.id)
                => e1.api_name = e2.api_name

C3_Witness ==
    \E e1, e2 \in emitted :
        /\ e1.sub.name.id = <<"a">> /\ e1.name.name.id = <<"a", "a">>
        /\ e2.sub.name.id = <<"a", "a">> /\ e2.name.name.id = <<"a">>
        /\ e1.sub.name.ns # e2.sub.name.ns
        /\ e1.name.name.ns # <<>>
        /\ e1.api_name.name = [ns |-> <<>>, id |-> <<"a", "_", "a", "a">>]
        /\ e2.api_name.name = [ns |-> <<>>, id |-> <<"a", "a", "_", "a">>]

\* --------------------------------------------- create_subclass_constructor
\* if let Some(FnArg::Typed(PatType { ty, .. })) = existing_params.first_mut()
\*     if let Type::Ptr(TypePtr { elem, .. }) = &mut **ty
self_param_is_ptr(inputs) ==
    /\ inputs # <<>>
    /\ inputs[1].arg = "Typed"
    /\ inputs[1].ty.t = "Ptr"

\* *elem = Box::new(Type::Path(sub.cpp().to_type_path()))
existing_params(sub, fun) ==
    IF self_param_is_ptr(fun.inputs)
    THEN [fun.inputs EXCEPT ![1].ty.elem = TypePath(to_type_path(cpp(sub)))]
    ELSE fun.inputs

boxed_holder_param(sub) ==
    Typed("peer", [t |-> "Box", elem |-> [t |-> "Path", path |-> holder(sub)]])

\* existing_params.next()
self_param(sub, fun) ==
    IF existing_params(sub, fun) = <<>> THEN None ELSE Some(Head(existing_params(sub, fun)))

constructor_inputs_holder_last(sub, fun) ==
    skip(existing_params(sub, fun), 1) \o <<boxed_holder_param(sub)>>

constructor_inputs(sub, fun) ==
    <<boxed_holder_param(sub)>> \o skip(existing_params(sub, fun), 1)

wrapper_inputs(sub, fun) == self_param(sub, fun) \o constructor_inputs(sub, fun)

actual_constructor_api_name(sub) ==
    new_with_cpp_name(get_namespace(synthesized_constructor(sub)),
                      get_final_ident(synthesized_constructor(sub)),
                      Some(get_final_item(cpp(sub))))

actual_constructor(sub, sup, fun) ==
    [fun EXCEPT !.inputs = constructor_inputs(sub, fun),
                !.ident = get_final_ident(cpp(sub)),
                !.synthesized_this_type = Some(cpp(sub)),
                !.self_ty = Some(cpp(sub)),
                !.synthetic_cpp = Some(<<<<"ConstructSuperclass", to_cpp_name(sup)>>,
                                         "SynthesizedConstructor">>),
                !.original_name = Some(get_final_item(cpp(sub))),
                !.cpp_only = TRUE]

subclass_constructor_name(sub) ==
    make_ident(get_final_item(cpp(sub)) \o <<"_">> \o get_final_item(cpp(sub)))

wrapper(sub, fun) ==
    [ident |-> subclass_constructor_name(sub),
     doc_attr |-> fun.doc_attr,
     inputs |-> wrapper_inputs(sub, fun),
     output |-> fun.output,
     vis |-> fun.vis,
     virtualness |-> "None",
     cpp_vis |-> "Public",
     special_member |-> fun.special_member,
     original_name |-> None,
     unused_template_param |-> fun.unused_template_param,
     references |-> fun.references,
     synthesized_this_type |-> Some(cpp(sub)),
     self_ty |-> Some(cpp(sub)),
     add_to_trait |-> None,
     is_deleted |-> fun.is_deleted,
     synthetic_cpp |-> None,
     cpp_only |-> FALSE]

wrapper_name(sub) ==
    new_with_cpp_name(RootNamespace, subclass_constructor_name(sub),
                      Some(get_final_item(cpp(sub))))

constructor_pair_wrapper_first(sub, sup, fun) ==
    <<[fun |-> wrapper(sub, fun), name |-> wrapper_name(sub)],
      [fun |-> actual_constructor(sub, sup, fun), name |-> actual_constructor_api_name(sub)]>>

constructor_pair(sub, sup, fun) ==
    <<[fun |-> actual_constructor(sub, sup, fun), name |-> actual_constructor_api_name(sub)],
      [fun |-> wrapper(sub, fun), name |-> wrapper_name(sub)]>>

constructor_without_params_accepted(sub, sup, fun) ==
    IF self_param_is_ptr(fun.inputs) \/ fun.inputs = <<>>
    THEN [panicked |-> FALSE, entries |-> constructor_pair(sub, sup, fun)]
    ELSE [panicked |-> TRUE, entries |-> <<>>]

\* A panic ends the run: nothing is returned.
create_subclass_constructor(sub, sup, fun) ==
    IF self_param_is_ptr(fun.inputs)
    THEN [panicked |-> FALSE, entries |-> constructor_pair(sub, sup, fun)]
    ELSE [panicked |-> TRUE, entries |-> <<>>]

\* A constructor with every optional field empty and one with every one set.
PlainConstructor ==
    FuncToConvert(<<"a">>, None, <<>>, "Default", "Inherited", "None", "Public", None,
                  FALSE, None, "NoReferences", None, None, None, FALSE, None, FALSE)
RichConstructor ==
    FuncToConvert(<<"a", "_">>, Some("doc"), <<>>, "Type", "Public", "Virtual", "Protected",
                  Some("DefaultConstructor"), TRUE, Some(<<"a", "_">>), "RefReturn",
                  Some(SuperS), Some(SuperS), Some("TraitSynthesis"), TRUE,
                  Some(<<"FunctionCall", "Function">>), TRUE)

SelfByValue(q) == Typed("this", TypePath(q))
ConstructorArgs == {Receiver, ThisPtr(SuperS), ThisPtr(SuperT), SelfByValue(SuperS), ArgX}

InitConstructor ==
    /\ ctorIn \in {Some([sub |-> SubclassName(NameB), sup |-> sup,
                          fun |-> [f EXCEPT !.inputs = ins]]) :
                      sup \in {SuperS, SuperT},
                      f \in {PlainConstructor, RichConstructor},
                      ins \in SeqsUpTo(ConstructorArgs, MaxParams)}
    /\ ctorOut = None
    /\ IdleVec
    /\ idxIn = <<>> /\ idxOut = None
    /\ wrapIn = None /\ wrapOut = None
    /\ callIn = None /\ callOut = None
    /\ emitted = {}

CreateSubclassConstructor ==
    /\ ctorOut = None
    /\ ctorOut' = Some(create_subclass_constructor(ctorIn[1].sub, ctorIn[1].sup, ctorIn[1].fun))
    /\ UNCHANGED <<apis, more, idxIn, idxOut, wrapIn, wrapOut, callIn, callOut, emitted, ctorIn>>

NextConstructor == CreateSubclassConstructor

SpecConstructor == InitConstructor /\ [][NextConstructor]_vars

FirstIsTypedPtr(inputs) ==
    Len(inputs) >= 1 /\ inputs[1].arg = "Typed" /\ inputs[1].ty.t = "Ptr"

FirstIsPtrTo(inputs, sup) ==
    FirstIsTypedPtr(inputs) /\ inputs[1].ty.elem = [t |-> "Path", path |-> sup]

\* C2 as stated: a constructor whose first parameter is not a pointer to the
\* given superclass type (no parameter, a receiver, a typed non-pointer, or a
\* pointer to another type) ends in the fatal failure and yields no entries.
C2_PanicsUnlessPtrToSuperclass ==
    (ctorOut # None /\ ~FirstIsPtrTo(ctorIn[1].fun.inputs, ctorIn[1].sup)) =>
        (ctorOut[1].panicked /\ ctorOut[1].entries = <<>>)

\* C2 amended: a constructor with no parameter, a receiver-style first
\* parameter or a typed non-pointer first parameter ends in the fatal failure
\* and yields no entries; a typed pointer first parameter is accepted whatever
\* its pointee, the given superclass or not, and the pair is returned.
C2_PanicsUnlessTypedPtr ==
    ctorOut # None =>
        /\ ~FirstIsTypedPtr(ctorIn[1].fun.inputs)
              => (ctorOut[1].panicked /\ ctorOut[1].entries = <<>>)
        /\ FirstIsTypedPtr(ctorIn[1].fun.inputs)
              => (~ctorOut[1].panicked /\ Len(ctorOut[1].entries) = 2)

C2_Witness ==
    /\ ctorOut # None
    /\ Len(ctorIn[1].fun.inputs) = 2
    /\ ctorIn[1].fun.inputs[1] = SelfByValue(ctorIn[1].sup)
    /\ ctorOut[1].panicked

\* C7: without the fatal failure exactly two entries come out, the actual
\* constructor first (cpp_only, construct-superclass body naming the given
\* superclass, identifier, this type and self type those of the subclass
\* type) and the wrapper second (not cpp_only, no synthetic body, identifier
\* the subclass type's final name, an underscore and that name again).
C7_ConstructorPair ==
    (ctorOut # None /\ ~ctorOut[1].panicked) =>
        LET es == ctorOut[1].entries
            c == cpp(ctorIn[1].sub)
        IN /\ Len(es) = 2
           /\ es[1].fun.cpp_only = TRUE
           /\ es[1].fun.synthetic_cpp =
                 Some(<<<<"ConstructSuperclass", <<ctorIn[1].sup.ns, ctorIn[1].sup.id>>>>,
                        "SynthesizedConstructor">>)
           /\ es[1].fun.ident = c.id
           /\ es[1].fun.synthesized_this_type = Some(c)
           /\ es[1].fun.self_ty = Some(c)
           /\ es[2].fun.cpp_only = FALSE
           /\ es[2].fun.synthetic_cpp = None
           /\ es[2].fun.ident = c.id \o <<"_">> \o c.id

C7_Witness ==
    /\ ctorOut # None
    /\ ~ctorOut[1].panicked
    /\ ~ctorIn[1].fun.cpp_only
    /\ ctorIn[1].fun.synthetic_cpp = None
    /\ ctorOut[1].entries[1].fun.cpp_only
    /\ ~ctorOut[1].entries[2].fun.cpp_only

\* C8: for accepted parameters [self, p1, ..., pn] the wrapper's inputs are
\* self with its pointee rewritten to the subclass type, the boxed holder,
\* then p1..pn; the actual constructor's inputs are the boxed holder then
\* p1..pn; so the wrapper's are the rewritten self followed by the actual
\* constructor's.
C8_ConstructorInputs ==
    (ctorOut # None /\ ~ctorOut[1].panicked) =>
        LET ins == ctorIn[1].fun.inputs
            actual == ctorOut[1].entries[1].fun.inputs
            wrapped == ctorOut[1].entries[2].fun.inputs
            selfp == [arg |-> "Typed", pat |-> ins[1].pat,
                      ty |-> [t |-> "Ptr", mutable |-> ins[1].ty.mutable,
                              elem |-> [t |-> "Path", path |-> cpp(ctorIn[1].sub)]]]
            peer == [arg |-> "Typed", pat |-> "peer",
                     ty |-> [t |-> "Box", elem |-> [t |-> "Path",
                                                    path |-> holder(ctorIn[1].sub)]]]
        IN /\ Len(actual) = Len(ins)
           /\ actual[1] = peer
           /\ \A i \in 2..Len(ins) : actual[i] = ins[i]
           /\ Len(wrapped) = Len(ins) + 1
           /\ wrapped[1] = selfp
           /\ wrapped[2] = peer
           /\ \A i \in 2..Len(ins) : wrapped[i + 1] = ins[i]
           /\ wrapped = <<selfp>> \o actual

C8_Witness ==
    /\ ctorOut # None
    /\ ~ctorOut[1].panicked
    /\ Len(ctorIn[1].fun.inputs) = 3
    /\ ctorIn[1].fun.inputs[2] # ctorIn[1].fun.inputs[3]
    /\ ctorIn[1].fun.inputs[1].ty.elem.path # cpp(ctorIn[1].sub)
    /\ Len(ctorOut[1].entries[2].fun.inputs) = 4

====
